---- MODULE Spec2Model ----
(***************************************************************************)
(* Transaction lifecycle of the dia-kadena CLI.                            *)
(*                                                                         *)
(* One behaviour of the model is one run of a command handler:             *)
(*   flow = "sendTransaction"  kadena.ts sendTransaction (write / deploy)  *)
(*   flow = "deploy"           commands.ts deploy handler (own pipe)       *)
(*   flow = "legacyDeploy"     cli.ts deploy handler                       *)
(*   flow = "read"             commands.ts read handler                    *)
(*   flow = "legacyRead"       cli.ts read handler                         *)
(*   flow = "balance"          commands.ts balance handler                 *)
(*   flow = "legacyBalance"    cli.ts balance handler                      *)
(* The network (client.local, submitOne, listen, pollStatus) and the       *)
(* signing capability are the environment: every answer they can give is   *)
(* a nondeterministic choice of the action that awaits them.               *)
(***************************************************************************)
EXTENDS Integers, Sequences, FiniteSets, TLC

\* ---------------------------------------------------------------- bounds
MaxSigners == 2
MaxGas == 2

\* ------------------------------------------------------ program constants
ProvisionalGasLimit == 150000
LegacyGasLimit == 100000
DeployGasLimit == 100000
GAS_PRICE == "1.0e-8"

\* ------------------------------------------------------------ input sets
Codes == {"(free.dia-oracle.set-value)", "(module dia-oracle)"}
ErrorPayloads == {"table already exists", "row not found"}
DataPayloads == {"Write succeeded", "TableCreated"}
Flows ==
  {"sendTransaction", "deploy", "legacyDeploy", "read", "legacyRead",
   "balance", "legacyBalance"}

\* the handlers that run the estimate / sign / submit / listen pipe
PipeFlows == {"sendTransaction", "deploy"}

NoSig == "undefined"
Sig == "sig"

\* meta of a partial command: a record holding only the fields that were set
CallerMetas ==
  {[sender |-> "k:pk"],
   [sender |-> "k:pk", gasLimit |-> LegacyGasLimit],
   [sender |-> "k:pk", gasLimit |-> LegacyGasLimit, gasPrice |-> "2.0e-8"]}

\* a command as composePactCommand(...) evaluates it: code, number of
\* declared signers, meta
Commands == [code : Codes, signers : 0..MaxSigners, meta : CallerMetas]

\* ------------------------------------------------ @kadena/client helpers
\* composePactCommand({meta: m})(command): the patch is applied after the
\* command, so fields of m override the command's
composePactCommand(m, command) == [command EXCEPT !.meta = m @@ command.meta]

\* setMeta(options)(command): library defaults, then the command's meta,
\* then options
setMeta(options, command) ==
  [command EXCEPT !.meta =
     options @@ command.meta @@
     [chainId |-> "0", gasLimit |-> 2500, gasPrice |-> GAS_PRICE,
      sender |-> "", ttl |-> 28800]]

\* JSON.stringify
stringify(v) == <<"json", v>>

\* the blake2b digest of the serialized command (taken collision free)
hash(s) == <<"blake2b", s>>

\* createTransaction: serialize, digest, one empty signature slot per signer
createTransaction(command) ==
  [cmd |-> stringify(command),
   hash |-> hash(stringify(command)),
   sigs |-> [i \in 1..command.signers |-> NoSig]]

\* isSignedTransaction: command.sigs.every((s) => s?.sig !== undefined)
isSignedTransaction(t) == \A i \in 1..Len(t.sigs) : t.sigs[i] # NoSig

\* -------------------------------------------------------------- utils.ts
\* panic: console.error(msg, ...params); process.exit(1)
panic(stage, msg, param) ==
  [kind |-> "exited", stage |-> stage, code |-> 1, stderr |-> <<msg, param>>]

\* panicIfFails(response): TRUE when it returns the response, FALSE when it
\* panics
panicIfFails(response) == response.status = "success"

panicIfFailsOutcome(stage, response) ==
  panic(stage, "Failed to execute the command:", stringify(response.error))

\* extractResult(response)
extractResult(stage, response) ==
  IF response.status # "success"
    THEN panicIfFailsOutcome(stage, response)
    ELSE [kind |-> "returned", stage |-> stage, value |-> response.data]

\* safeSign with the early return dropped
safeSignSkipsNever(t) == Len(t.sigs) < 0

\* safeSign line 34: the capability is skipped when there is no signature slot
safeSignSkips(t) == Len(t.sigs) = 0

\* safeSign with the hash comparison dropped
safeSignNoHashCheck(t, s) ==
  LET txWithSigs == [t EXCEPT !.sigs = s.sigs] IN
  IF ~isSignedTransaction(txWithSigs)
    THEN [ok |-> FALSE, err |-> "Signing failed", tx |-> t]
    ELSE [ok |-> TRUE, err |-> "", tx |-> txWithSigs]

\* safeSign passing on the capability's answer instead of merging its sigs
safeSignTrusting(t, s) ==
  LET signedTx == [cmd |-> s.cmd, hash |-> s.hash, sigs |-> s.sigs] IN
  IF t.hash # s.hash
    THEN [ok |-> FALSE, err |-> "Hash mismatch", tx |-> t]
    ELSE IF ~isSignedTransaction(signedTx)
      THEN [ok |-> FALSE, err |-> "Signing failed", tx |-> t]
      ELSE [ok |-> TRUE, err |-> "", tx |-> signedTx]

\* safeSign lines 37-46 applied to the capability's answer s
safeSign(t, s) ==
  LET txWithSigs == [t EXCEPT !.sigs = s.sigs] IN
  IF txWithSigs.hash # s.hash
    THEN [ok |-> FALSE, err |-> "Hash mismatch", tx |-> t]
    ELSE IF ~isSignedTransaction(txWithSigs)
      THEN [ok |-> FALSE, err |-> "Signing failed", tx |-> t]
      ELSE [ok |-> TRUE, err |-> "", tx |-> txWithSigs]

\* estimateGas lines 69-76: provisional bound, then finalize
estimateTx(command) ==
  createTransaction(
    composePactCommand([gasLimit |-> ProvisionalGasLimit, gasPrice |-> GAS_PRICE],
                       command))

\* estimateGas line 79
estimateGas(response) == [gasLimit |-> response.gas, gasPrice |-> GAS_PRICE]

\* ------------------------------------------------------------ environment
SigSeqs == UNION {[1..n -> {NoSig, Sig}] : n \in 0..MaxSigners}

\* what a capability may do to the command before answering
AlteredCmds(c) ==
  {[c EXCEPT !.code = "(coin.transfer)"],
   [c EXCEPT !.meta = [gasLimit |-> ProvisionalGasLimit] @@ c.meta],
   [c EXCEPT !.signers = 0]}

\* the answers of an arbitrary signing capability given t (plus rejection)
SignAnswers(t) ==
  LET cmds == {t.cmd} \cup {stringify(c) : c \in AlteredCmds(t.cmd[2])} IN
  [kind : {"value"}, cmd : cmds, hash : {hash(c) : c \in cmds}, sigs : SigSeqs]
  \cup {[kind |-> "rejected"]}

\* createSignWithKeypair(keypair): signs every slot, or throws
KeypairAnswers(t) ==
  {[kind |-> "value", cmd |-> t.cmd, hash |-> t.hash,
    sigs |-> [i \in 1..Len(t.sigs) |-> Sig]],
   [kind |-> "rejected"]}

\* ICommandResult of local / listen / pollStatus (plus transport failure)
CommandResults ==
  [status : {"success"}, gas : 1..MaxGas, data : DataPayloads]
  \cup [status : {"failure"}, gas : 1..MaxGas, error : ErrorPayloads]
NetAnswers == CommandResults \cup {[status |-> "rejected"]}

\* ------------------------------------------------------------------ state
VARIABLES
  flow,        \* which handler runs
  command,     \* the composable command the handler was given / built
  pc,          \* the stage the run is about to execute, or "done"
  gasLimit,    \* const { gasLimit } = await estimateGas(...)
  refined,     \* the command after composePactCommand(setMeta({ gasLimit }))
  tx,          \* the transaction value flowing through the pipe
  finalTx,     \* history: what createTransaction returned for submission
  descr,       \* the ITransactionDescriptor submitOne returned
  response,    \* the ICommandResult listen / pollStatus returned
  localResp,   \* history: the answer of client.local
  signResult,  \* history: the last answer of the signing capability
  calls,       \* history: the calls made to the network and the capability
  stagesRun,   \* history: the stages executed, in order
  outcome,     \* how the run ended: returned, raised or exited the process
  runs,        \* concurrent sendTransaction runs: the state of each run
  now,         \* the clock of the caller of the concurrent runs
  cancelled,   \* per concurrent run: the caller has signalled cancellation
  ledger,      \* the chain: admin keyset, dia-oracle module, storage table
  txn,         \* the transaction the chain is processing, with its result
  written      \* history: per key, the last UPDATE event of a committed transaction

\* the state of the single handler run
pipeVars == <<flow, command, pc, gasLimit, refined, tx, finalTx, descr, response,
              localResp, signResult, calls, stagesRun, outcome>>

\* the state of the concurrent runs
concVars == <<runs, now, cancelled>>

\* what a step of the single handler run leaves alone
\* the state of the chain that holds the oracle
chainVars == <<ledger, txn, written>>

restVars == <<concVars, chainVars>>

vars == <<pipeVars, restVars>>

NoTx == [cmd |-> <<>>, hash |-> <<>>, sigs |-> <<>>]
NoDescr == [requestKey |-> <<>>]
NoResult == [status |-> "none"]
Pending == [kind |-> "pending"]

raise(stage, err) == [kind |-> "raised", stage |-> stage, err |-> err]

\* the pipe with submitOne chained before safeSign
stageAfterSubmitFirst(s) ==
  CASE s = "EstimateGas" -> "RefineMeta"
    [] s = "RefineMeta" -> "Finalize"
    [] s = "Finalize" -> "Submit"
    [] s = "Submit" -> "Sign"
    [] s = "Sign" -> "Poll"
    [] s = "Poll" -> "Extract"
    [] OTHER -> "done"

\* sendTransaction lines 90-100: the order in which the stages are chained
stageAfter(s) ==
  CASE s = "EstimateGas" -> "RefineMeta"
    [] s = "RefineMeta" -> "Finalize"
    [] s = "Finalize" -> "Sign"
    [] s = "Sign" -> "Submit"
    [] s = "Submit" -> "Poll"
    [] s = "Poll" -> "Extract"
    [] OTHER -> "done"

\* a pipe that swallows the failure of a stage and goes on
asyncPipeContinue(ok, stage) == stageAfter(stage)

\* asyncPipe / await: a stage that threw or exited ends the run, otherwise
\* the next stage gets the value
asyncPipe(ok, stage) == IF ok THEN stageAfter(stage) ELSE "done"

\* ------------------------------------------ pact/dia-oracle.pact: the data
UNIX_EPOCH == 0
ADMIN_KEYSET == "free.dia-admin-keyset"

OracleKeys == {"BTC/USD", "ETH/USD"}
Times == {UNIX_EPOCH - 1, UNIX_EPOCH, UNIX_EPOCH + 1}
Values == {1, 2}
PublicKeys == {"alice", "bob"}

\* a row of the storage table (value-schema), and its absence
Row(t, v) == [set |-> TRUE, timestamp |-> t, value |-> v]
NoRow == [set |-> FALSE]

\* no UPDATE event was emitted for a key
NoUpdate == [set |-> FALSE]

\* a chain on which nothing was deployed
FreshLedger ==
  [keysets |-> [n \in {ADMIN_KEYSET} |-> "none"], module |-> FALSE,
   table |-> FALSE,
   rows |-> [k \in OracleKeys |-> NoRow]]

NoTxn == [phase |-> "idle"]

\* the chain is not used
ChainIdle ==
  /\ ledger = FreshLedger
  /\ txn = NoTxn
  /\ written = [k \in OracleKeys |-> NoUpdate]

\* no concurrent run exists
ConcIdle ==
  /\ runs = <<>>
  /\ now = 0
  /\ cancelled = <<>>

\* the command each handler builds from its arguments
HandlerCommands(f) ==
  CASE f = "sendTransaction" -> Commands
    [] f = "deploy" ->
         [code : Codes, signers : {1},
          meta : {[sender |-> "k:pk", gasLimit |-> DeployGasLimit]}]
    [] f = "legacyDeploy" ->
         [code : Codes, signers : {1}, meta : {[sender |-> "k:pk"]}]
    [] f \in {"read", "legacyRead"} ->
         [code : {"(+ 1 2)"}, signers : {0}, meta : {[chainId |-> "0"]}]
    [] f \in {"balance", "legacyBalance"} ->
         [code : {"(coin.get-balance)"}, signers : {0}, meta : {[chainId |-> "0"]}]

FirstStage(f) ==
  CASE f \in PipeFlows -> "EstimateGas"
    [] f = "legacyDeploy" -> "LegacySign"
    [] f = "read" -> "Read"
    [] f = "legacyRead" -> "LegacyRead"
    [] f = "balance" -> "Balance"
    [] f = "legacyBalance" -> "LegacyBalance"

Init ==
  /\ flow \in Flows
  /\ command \in HandlerCommands(flow)
  /\ pc = FirstStage(flow)
  /\ gasLimit = 0
  /\ refined = command
  /\ tx = NoTx
  /\ finalTx = NoTx
  /\ descr = NoDescr
  /\ response = NoResult
  /\ localResp = NoResult
  /\ signResult = [kind |-> "none"]
  /\ calls = <<>>
  /\ stagesRun = <<>>
  /\ outcome = Pending
  /\ ConcIdle
  /\ ChainIdle

\* ------------------------------------------- sendTransaction (kadena.ts)
\* const { gasLimit } = await estimateGas(command, client)
EstimateGas ==
  /\ flow \in PipeFlows /\ pc = "EstimateGas"
  /\ \E r \in NetAnswers :
       /\ calls' = Append(calls, [op |-> "local", tx |-> estimateTx(command)])
       /\ localResp' = r
       /\ IF r.status = "rejected"
            THEN /\ outcome' = raise("EstimateGas", "transport failure")
                 /\ pc' = "done"
                 /\ UNCHANGED gasLimit
            ELSE IF ~panicIfFails(r)
              THEN /\ outcome' = panicIfFailsOutcome("EstimateGas", r)
                   /\ pc' = "done"
                   /\ UNCHANGED gasLimit
              ELSE /\ gasLimit' = estimateGas(r).gasLimit
                   /\ pc' = stageAfter("EstimateGas")
                   /\ UNCHANGED outcome
  /\ stagesRun' = Append(stagesRun, "EstimateGas")
  /\ UNCHANGED <<flow, command, refined, tx, finalTx, descr, response, signResult>>
  /\ UNCHANGED restVars

\* composePactCommand(setMeta({ gasLimit }))
RefineMeta ==
  /\ flow \in PipeFlows /\ pc = "RefineMeta"
  /\ refined' = setMeta([gasLimit |-> gasLimit], command)
  /\ pc' = asyncPipe(TRUE, "RefineMeta")
  /\ stagesRun' = Append(stagesRun, "RefineMeta")
  /\ UNCHANGED <<flow, command, gasLimit, tx, finalTx, descr, response,
                 localResp, signResult, calls, outcome>>
  /\ UNCHANGED restVars

\* createTransaction
Finalize ==
  /\ flow \in PipeFlows /\ pc = "Finalize"
  /\ tx' = createTransaction(refined)
  /\ finalTx' = tx'
  /\ pc' = IF flow = "deploy" THEN "KeypairSign" ELSE asyncPipe(TRUE, "Finalize")
  /\ stagesRun' = Append(stagesRun, "Finalize")
  /\ UNCHANGED <<flow, command, gasLimit, refined, descr, response,
                 localResp, signResult, calls, outcome>>
  /\ UNCHANGED restVars

\* the capability each handler passes to safeSign, as its answers
Capability(f, t) == IF f = "deploy" THEN KeypairAnswers(t) ELSE SignAnswers(t)

\* deploy of commands.ts, the pipe stage before safeSign:
\* createSignWithKeypair(keypair) applied to the transaction, its answer
\* passed on as it is
KeypairSign ==
  /\ flow = "deploy" /\ pc = "KeypairSign"
  /\ calls' = Append(calls, [op |-> "sign", tx |-> tx])
  /\ \E s \in KeypairAnswers(tx) :
       /\ signResult' = s
       /\ IF s.kind = "rejected"
            THEN /\ outcome' = raise("KeypairSign", "capability rejected")
                 /\ pc' = "done"
                 /\ UNCHANGED tx
            ELSE /\ tx' = [cmd |-> s.cmd, hash |-> s.hash, sigs |-> s.sigs]
                 /\ pc' = "Sign"
                 /\ UNCHANGED outcome
  /\ stagesRun' = Append(stagesRun, "KeypairSign")
  /\ UNCHANGED <<flow, command, gasLimit, refined, finalTx, descr, response, localResp>>
  /\ UNCHANGED restVars

\* safeSign(sign)
Sign ==
  /\ flow \in PipeFlows /\ pc = "Sign"
  /\ IF safeSignSkips(tx)
       THEN /\ pc' = asyncPipe(TRUE, "Sign")
            /\ UNCHANGED <<tx, signResult, calls, outcome>>
       ELSE \E s \in Capability(flow, tx) :
            /\ calls' = Append(calls, [op |-> "sign", tx |-> tx])
            /\ signResult' = s
            /\ IF s.kind = "rejected"
                 THEN /\ outcome' = raise("Sign", "capability rejected")
                      /\ pc' = asyncPipe(FALSE, "Sign")
                      /\ UNCHANGED tx
                 ELSE LET r == safeSign(tx, s) IN
                      /\ tx' = r.tx
                      /\ pc' = asyncPipe(r.ok, "Sign")
                      /\ outcome' = IF r.ok THEN outcome ELSE raise("Sign", r.err)
  /\ stagesRun' = Append(stagesRun, "Sign")
  /\ UNCHANGED <<flow, command, gasLimit, refined, finalTx, descr, response, localResp>>
  /\ UNCHANGED restVars

\* the submit stage resubmitting the transaction after a transport failure
SubmitRetrying ==
  /\ flow \in PipeFlows /\ pc = "Submit"
  /\ calls' = Append(calls, [op |-> "submitOne", tx |-> tx])
  /\ \E accepted \in BOOLEAN :
       /\ descr' = IF accepted THEN [requestKey |-> tx.hash] ELSE descr
       /\ pc' = IF accepted THEN asyncPipe(TRUE, "Submit") ELSE "Submit"
  /\ stagesRun' = Append(stagesRun, "Submit")
  /\ UNCHANGED <<flow, command, gasLimit, refined, tx, finalTx, response,
                 localResp, signResult, outcome>>
  /\ UNCHANGED restVars

\* client.submitOne, then logTransaction (console output only)
Submit ==
  /\ flow \in PipeFlows /\ pc = "Submit"
  /\ calls' = Append(calls, [op |-> "submitOne", tx |-> tx])
  /\ \E accepted \in BOOLEAN :
       /\ descr' = IF accepted THEN [requestKey |-> tx.hash] ELSE descr
       /\ outcome' = IF accepted THEN outcome ELSE raise("Submit", "transport failure")
       /\ pc' = asyncPipe(accepted, "Submit")
  /\ stagesRun' = Append(stagesRun, "Submit")
  /\ UNCHANGED <<flow, command, gasLimit, refined, tx, finalTx, response,
                 localResp, signResult>>
  /\ UNCHANGED restVars

\* client.listen
Poll ==
  /\ flow \in PipeFlows /\ pc = "Poll"
  /\ calls' = Append(calls, [op |-> "listen", descr |-> descr])
  /\ \E r \in NetAnswers :
       /\ response' = r
       /\ outcome' = IF r.status = "rejected"
                       THEN raise("Poll", "transport failure") ELSE outcome
       /\ pc' = asyncPipe(r.status # "rejected", "Poll")
  /\ stagesRun' = Append(stagesRun, "Poll")
  /\ UNCHANGED <<flow, command, gasLimit, refined, tx, finalTx, descr,
                 localResp, signResult>>
  /\ UNCHANGED restVars

\* extractResult
Extract ==
  /\ flow \in PipeFlows /\ pc = "Extract"
  /\ outcome' = extractResult("Extract", response)
  /\ pc' = asyncPipe(outcome'.kind = "returned", "Extract")
  /\ stagesRun' = Append(stagesRun, "Extract")
  /\ UNCHANGED <<flow, command, gasLimit, refined, tx, finalTx, descr, response,
                 localResp, signResult, calls>>
  /\ UNCHANGED restVars

\* ------------------------------------------------- deploy handler of cli.ts
\* validateResult(data)
validateResult(stage, data) ==
  IF data.status # "success"
    THEN panic(stage, "Failed to execute the command:", stringify(data.error))
    ELSE [kind |-> "returned", stage |-> stage, value |-> data]

\* Pact.builder ... .setMeta({ chainId, gasLimit: 100_000, senderAccount })
\* ... .createTransaction()
legacyTx(cmd) == createTransaction(setMeta([gasLimit |-> LegacyGasLimit], cmd))

\* const signedTx = await sign(tx); if (!isSignedTransaction(signedTx)) exit
LegacySign ==
  /\ flow = "legacyDeploy" /\ pc = "LegacySign"
  /\ finalTx' = legacyTx(command)
  /\ calls' = Append(calls, [op |-> "sign", tx |-> finalTx'])
  /\ \E s \in KeypairAnswers(finalTx') :
       /\ signResult' = s
       /\ IF s.kind = "rejected"
            THEN /\ outcome' = raise("LegacySign", "capability rejected")
                 /\ pc' = "done"
                 /\ UNCHANGED tx
            ELSE /\ tx' = [cmd |-> s.cmd, hash |-> s.hash, sigs |-> s.sigs]
                 /\ IF isSignedTransaction(tx')
                      THEN pc' = "LegacySubmit" /\ UNCHANGED outcome
                      ELSE /\ pc' = "done"
                           /\ outcome' = panic("LegacySign", "Command is not signed", <<>>)
  /\ stagesRun' = Append(stagesRun, "LegacySign")
  /\ UNCHANGED <<flow, command, gasLimit, refined, descr, response, localResp>>
  /\ UNCHANGED restVars

\* const descr = await submitOne(signedTx)
LegacySubmit ==
  /\ flow = "legacyDeploy" /\ pc = "LegacySubmit"
  /\ calls' = Append(calls, [op |-> "submitOne", tx |-> tx])
  /\ \E accepted \in BOOLEAN :
       /\ descr' = IF accepted THEN [requestKey |-> tx.hash] ELSE descr
       /\ outcome' = IF accepted THEN outcome
                                 ELSE raise("LegacySubmit", "transport failure")
       /\ pc' = IF accepted THEN "LegacyPoll" ELSE "done"
  /\ stagesRun' = Append(stagesRun, "LegacySubmit")
  /\ UNCHANGED <<flow, command, gasLimit, refined, tx, finalTx, response,
                 localResp, signResult>>
  /\ UNCHANGED restVars

\* const response = await pollStatus(descr); the entry of the request key
\* may be missing from the mapping
LegacyPoll ==
  /\ flow = "legacyDeploy" /\ pc = "LegacyPoll"
  /\ calls' = Append(calls, [op |-> "pollStatus", descr |-> descr])
  /\ \E r \in NetAnswers \cup {[status |-> "missing"]} :
       /\ response' = r
       /\ outcome' =
            IF r.status = "rejected" THEN raise("LegacyPoll", "transport failure")
            ELSE IF r.status = "missing"
              THEN panic("LegacyPoll", "Invalid API response", <<>>)
              ELSE validateResult("LegacyPoll", r)
  /\ pc' = "done"
  /\ stagesRun' = Append(stagesRun, "LegacyPoll")
  /\ UNCHANGED <<flow, command, gasLimit, refined, tx, finalTx, descr,
                 localResp, signResult>>
  /\ UNCHANGED restVars

\* ------------------------------------------- read-only handlers
\* index.ts: run(binary(cmd), process.argv).catch(panic); cli.ts: the same
\* with console.error(e); process.exit(1)
run(o) == IF o.kind = "raised" THEN panic(o.stage, o.err, <<>>) ELSE o

\* dirtyReadClient(...)(command).execute() of @kadena/client-utils: the
\* dirty read, then throw result.error unless the status is success, then
\* result.data
dirtyReadClient(stage, r) ==
  IF r.status = "rejected" THEN raise(stage, "transport failure")
  ELSE IF r.status # "success" THEN raise(stage, r.error)
  ELSE [kind |-> "returned", stage |-> stage, value |-> r.data]

\* a read handler that goes through the preflight call of estimateGas
dirtyReadAsPreflight(t) == [op |-> "local", tx |-> t]

\* client.dirtyRead(tx): the one network call of a read-only handler
dirtyRead(t) == [op |-> "dirtyRead", tx |-> t]

\* console.log of a value
print(stage, text) == [kind |-> "returned", stage |-> stage, value |-> text]

\* balances the chain reports, and Number.prototype.toString on them
Balances == {0, 12}
toString(n) == IF n = 0 THEN "0" ELSE "12"

BalanceAnswers ==
  [status : {"success"}, gas : 1..MaxGas, data : Balances]
  \cup [status : {"failure"}, gas : 1..MaxGas, error : ErrorPayloads]
  \cup {[status |-> "rejected"]}

\* result.error.message.includes('row not found')
includesRowNotFound(e) == e = "row not found"

\* commands.ts read: dirtyReadClient({ host })(command).execute()
Read ==
  /\ flow = "read" /\ pc = "Read"
  /\ finalTx' = createTransaction(command)
  /\ calls' = Append(calls, dirtyRead(finalTx'))
  /\ \E r \in NetAnswers :
       /\ response' = r
       /\ outcome' =
            LET o == dirtyReadClient("Read", r) IN
            IF o.kind = "returned" THEN print("Read", stringify(o.value)) ELSE run(o)
  /\ pc' = "done"
  /\ stagesRun' = Append(stagesRun, "Read")
  /\ UNCHANGED <<flow, command, gasLimit, refined, tx, descr, localResp, signResult>>
  /\ UNCHANGED restVars

\* cli.ts read: dirtyRead(command), validateResult, print result.data
LegacyRead ==
  /\ flow = "legacyRead" /\ pc = "LegacyRead"
  /\ finalTx' = createTransaction(command)
  /\ calls' = Append(calls, dirtyRead(finalTx'))
  /\ \E r \in NetAnswers :
       /\ response' = r
       /\ outcome' =
            IF r.status = "rejected"
              THEN run(raise("LegacyRead", "transport failure"))
              ELSE LET o == validateResult("LegacyRead", r) IN
                   IF o.kind = "returned"
                     THEN print("LegacyRead", stringify(r.data)) ELSE o
  /\ pc' = "done"
  /\ stagesRun' = Append(stagesRun, "LegacyRead")
  /\ UNCHANGED <<flow, command, gasLimit, refined, tx, descr, localResp, signResult>>
  /\ UNCHANGED restVars

\* commands.ts balance: getBalance(...) of @kadena/client-utils is a
\* dirtyReadClient call; console.log(balance || '0')
Balance ==
  /\ flow = "balance" /\ pc = "Balance"
  /\ finalTx' = createTransaction(command)
  /\ calls' = Append(calls, dirtyRead(finalTx'))
  /\ \E r \in BalanceAnswers :
       /\ response' = r
       /\ outcome' =
            LET o == dirtyReadClient("Balance", r) IN
            IF o.kind = "returned"
              THEN print("Balance", IF o.value = 0 THEN "0" ELSE toString(o.value))
              ELSE run(o)
  /\ pc' = "done"
  /\ stagesRun' = Append(stagesRun, "Balance")
  /\ UNCHANGED <<flow, command, gasLimit, refined, tx, descr, localResp, signResult>>
  /\ UNCHANGED restVars

\* cli.ts balance
LegacyBalance ==
  /\ flow = "legacyBalance" /\ pc = "LegacyBalance"
  /\ finalTx' = createTransaction(command)
  /\ calls' = Append(calls, dirtyRead(finalTx'))
  /\ \E r \in BalanceAnswers :
       /\ response' = r
       /\ outcome' =
            IF r.status = "rejected"
              THEN run(raise("LegacyBalance", "transport failure"))
            ELSE IF r.status # "success"
              THEN IF includesRowNotFound(r.error)
                     THEN print("LegacyBalance", "0.0")
                     ELSE panic("LegacyBalance", "Failed to query account balance:",
                                stringify(r.error))
              ELSE print("LegacyBalance", toString(r.data))
  /\ pc' = "done"
  /\ stagesRun' = Append(stagesRun, "LegacyBalance")
  /\ UNCHANGED <<flow, command, gasLimit, refined, tx, descr, localResp, signResult>>
  /\ UNCHANGED restVars

\* ---------------------------------------------------------- specification
Next ==
  \/ EstimateGas
  \/ RefineMeta
  \/ Finalize
  \/ KeypairSign
  \/ Sign
  \/ Submit
  \/ Poll
  \/ Extract
  \/ LegacySign
  \/ LegacySubmit
  \/ LegacyPoll
  \/ Read
  \/ LegacyRead
  \/ Balance
  \/ LegacyBalance

Spec == Init /\ [][Next]_vars

\* ------------------------------------------------------------- properties
Send == flow = "sendTransaction"
Called(op) == \E i \in DOMAIN calls : calls[i].op = op
SubmitCalls == {i \in DOMAIN calls : calls[i].op = "submitOne"}
Failed == outcome.kind \in {"raised", "exited"}
Ran(stage) == \E i \in DOMAIN stagesRun : stagesRun[i] = stage

\* sigs holds a signature in the slot of each of the n declared signers
HasAllSigs(sigs, n) == Len(sigs) >= n /\ \A i \in 1..n : sigs[i] # NoSig

\* the capability answered with a value
Answered == signResult.kind = "value"

\* C1: every transaction sendTransaction hands to client.submitOne has the
\* hash createTransaction computed in that run, still the digest of its cmd,
\* and a signature for every signer the command declares.
C1_SubmittedCompleteAndHashStable ==
  Send =>
    \A i \in SubmitCalls :
      /\ calls[i].tx.hash = finalTx.hash
      /\ calls[i].tx.hash = hash(calls[i].tx.cmd)
      /\ HasAllSigs(calls[i].tx.sigs, refined.signers)

\* C2: when client.local answers with a status other than success, the run
\* ends by raising an error that carries the chain's error payload, and the
\* capability, submitOne and listen are never called.
C2_FailedDryRunRaises ==
  (Send /\ localResp.status = "failure") =>
    /\ outcome.kind = "raised"
    /\ outcome.stage = "EstimateGas"
    /\ outcome.err = localResp.error
    /\ ~Called("sign") /\ ~Called("submitOne") /\ ~Called("listen")

\* C3: when the capability answers with a hash other than the hash of the
\* transaction it was given, the run raises "Hash mismatch" and submitOne is
\* never called.
C3_HashMismatchRaises ==
  (Send /\ Answered /\ signResult.hash # finalTx.hash) =>
    /\ outcome = raise("Sign", "Hash mismatch")
    /\ pc = "done"
    /\ ~Called("submitOne")

C3_Witness ==
  /\ Send /\ Answered /\ signResult.hash # finalTx.hash
  /\ HasAllSigs(signResult.sigs, refined.signers)
  /\ outcome = raise("Sign", "Hash mismatch")

\* C4: whatever the capability answers, the transaction handed to submitOne
\* has the cmd and hash createTransaction produced; only its sigs are the
\* capability's.
C4_OnlySigsFromCapability ==
  Send =>
    \A i \in SubmitCalls :
      /\ calls[i].tx.cmd = finalTx.cmd
      /\ calls[i].tx.hash = finalTx.hash
      /\ IF Answered THEN calls[i].tx.sigs = signResult.sigs
                     ELSE calls[i].tx = finalTx

C4_Witness ==
  /\ Send /\ Answered /\ signResult.cmd # finalTx.cmd
  /\ \E i \in SubmitCalls : calls[i].tx.cmd = finalTx.cmd

\* C5: when the capability answers with the right hash but without a
\* signature for some declared signer, the run raises "Signing failed" and
\* submitOne is never called.
C5_IncompleteSigningRaises ==
  (Send /\ Answered /\ signResult.hash = finalTx.hash
        /\ ~HasAllSigs(signResult.sigs, refined.signers)) =>
    /\ outcome = raise("Sign", "Signing failed")
    /\ ~Called("submitOne")

\* C6: a transaction with no declared signer leaves safeSign unchanged and
\* the capability is never called.
C6_ZeroSignersSkipCapability ==
  (Send /\ Ran("Sign") /\ refined.signers = 0) =>
    /\ tx = finalTx
    /\ ~Called("sign")
    /\ signResult.kind = "none"
    /\ (outcome.kind # "pending" => outcome.stage # "Sign")

C6_Witness ==
  /\ Send /\ refined.signers = 0
  /\ \E i \in SubmitCalls : calls[i].tx = finalTx

\* C7: every transaction handed to submitOne, by any handler, carries as
\* gasLimit the gas a successful client.local call of the same run reported.
C7_SubmittedGasIsEstimated ==
  \A i \in SubmitCalls :
    /\ localResp.status = "success"
    /\ calls[i].tx.cmd[2].meta.gasLimit = localResp.gas

\* C8: extractResult returns the data of a success result unchanged and
\* raises an error carrying the error payload for any other result.
C8_ExtractReturnsOrRaises ==
  (Send /\ Ran("Extract")) =>
    IF response.status = "success"
      THEN outcome.kind = "returned" /\ outcome.value = response.data
      ELSE outcome.kind = "raised" /\ outcome.err = response.error

NoRepeat(seq) == \A i, j \in DOMAIN seq : seq[i] = seq[j] => i = j

\* C9: once a stage has failed the run is over: it ends in that stage's
\* failure, no further stage runs, no call is made and no stage runs twice.
C9_AbortOnFirstFailure ==
  /\ [](Failed => /\ pc = "done"
                  /\ outcome.stage = stagesRun[Len(stagesRun)])
  /\ [](NoRepeat(stagesRun))
  /\ [][Failed => UNCHANGED <<calls, stagesRun, outcome>>]_vars

C9_Witness ==
  /\ Send /\ Failed /\ outcome.stage = "Sign"
  /\ pc = "done" /\ ~Called("submitOne")

StageOrder ==
  <<"EstimateGas", "RefineMeta", "Finalize", "Sign", "Submit", "Poll", "Extract">>

\* C10: the stages of sendTransaction run in the order EstimateGas,
\* RefineMeta, Finalize, Sign, Submit, Poll, Extract; submitOne is called
\* only after a successful estimate and a successful sign, listen only
\* after submitOne returned a descriptor.
C10_StagesInOrder ==
  Send =>
    /\ Len(stagesRun) <= Len(StageOrder)
    /\ \A i \in DOMAIN stagesRun : stagesRun[i] = StageOrder[i]
    /\ \A i \in DOMAIN calls :
         /\ calls[i].op = "submitOne" =>
              /\ localResp.status = "success"
              /\ \E j \in 1..(i-1) : calls[j].op = "local"
              /\ \A j \in (i+1)..Len(calls) : calls[j].op # "sign"
              /\ IF Answered THEN calls[i].tx.sigs = signResult.sigs
                             ELSE signResult.kind = "none"
         /\ calls[i].op = "listen" =>
              /\ calls[i].descr # NoDescr
              /\ \E j \in 1..(i-1) : calls[j].op = "submitOne"

C10_Witness ==
  /\ Send /\ stagesRun = StageOrder
  /\ Called("sign") /\ Called("listen")

\* C11: a run calls client.submitOne at most once; when that call fails with
\* a transport error the run ends with that error and nothing is submitted
\* again.
C11_SubmitAtMostOnce ==
  /\ Cardinality(SubmitCalls) <= 1
  /\ (Called("submitOne") /\ descr = NoDescr) =>
       /\ outcome.kind = "raised"
       /\ outcome.err = "transport failure"
       /\ outcome.stage \in {"Submit", "LegacySubmit"}
       /\ pc = "done"

C11_Witness ==
  /\ Send /\ Called("submitOne") /\ descr = NoDescr
  /\ outcome = raise("Submit", "transport failure")

\* C12: when the poll response does not hold the submitted request key, the
\* run raises an error at once: it is neither polled again nor a success.
C12_MissingKeyRaises ==
  response.status = "missing" =>
    /\ outcome.kind = "raised"
    /\ outcome.stage = "LegacyPoll"
    /\ Cardinality({i \in DOMAIN calls : calls[i].op = "pollStatus"}) = 1

\* C16: no stage of sendTransaction terminates the host process: every
\* failure reaches the caller as a raised error.
C16_NeverExitsProcess == Send => outcome.kind # "exited"

ReadOnly == flow \in {"read", "legacyRead"}

\* C15: a read handler builds and finalizes the command, makes one dirty
\* read and extracts: it never calls the preflight local of estimateGas,
\* the signing capability, submitOne, listen or pollStatus.
C15_ReadNeverCommits ==
  ReadOnly =>
    /\ Len(calls) <= 1
    /\ \A i \in DOMAIN calls :
         /\ calls[i].op = "dirtyRead"
         /\ calls[i].tx = createTransaction(command)
    /\ gasLimit = 0 /\ signResult.kind = "none" /\ descr = NoDescr
    /\ (outcome.kind = "returned" =>
          /\ Called("dirtyRead")
          /\ outcome.value = stringify(response.data))

C15_Witness ==
  /\ flow = "read" /\ outcome.kind = "returned" /\ Called("dirtyRead")

BalanceFlow == flow \in {"balance", "legacyBalance"}

\* C17: a balance lookup answered with a "row not found" error prints the
\* fallback 0.0 and is no failure; any other error is a failure; a success
\* prints the balance the chain returned.
C17_BalanceFallback ==
  (BalanceFlow /\ pc = "done" /\ response.status # "rejected") =>
    IF response.status = "success"
      THEN outcome.kind = "returned" /\ outcome.value = toString(response.data)
      ELSE IF includesRowNotFound(response.error)
        THEN outcome.kind = "returned" /\ outcome.value = "0.0"
        ELSE Failed

\* ----------------------------------------- concurrent sendTransaction runs
\* Two runs of sendTransaction for different commands.  Every await is a
\* suspension point: a call action suspends the run, an answer action
\* resumes it.  The caller's clock and cancellation signal are environment
\* state; sendTransaction takes neither a deadline nor a signal.
Deadline == 1
MaxTime == Deadline + 1

Runs == {1, 2}

ConcCommand(r) ==
  IF r = 1
    THEN [code |-> "(free.dia-oracle.set-value)", signers |-> 1,
          meta |-> [sender |-> "k:pk"]]
    ELSE [code |-> "(module dia-oracle)", signers |-> 1,
          meta |-> [sender |-> "k:pk", gasLimit |-> LegacyGasLimit]]

NewRun(r) ==
  [command |-> ConcCommand(r), pc |-> "EstimateGas", awaiting |-> "none",
   gasLimit |-> 0, refined |-> ConcCommand(r), tx |-> NoTx, descr |-> NoDescr,
   response |-> NoResult, localResp |-> NoResult,
   signResult |-> [kind |-> "none"], calls |-> <<>>, stagesRun |-> <<>>,
   outcome |-> Pending]

\* the single handler run is not used
PipeIdle ==
  /\ flow = "none"
  /\ command = [code |-> "", signers |-> 0, meta |-> [sender |-> ""]]
  /\ pc = "done"
  /\ gasLimit = 0
  /\ refined = command
  /\ tx = NoTx
  /\ finalTx = NoTx
  /\ descr = NoDescr
  /\ response = NoResult
  /\ localResp = NoResult
  /\ signResult = [kind |-> "none"]
  /\ calls = <<>>
  /\ stagesRun = <<>>
  /\ outcome = Pending

ConcInit ==
  /\ PipeIdle
  /\ runs = [r \in Runs |-> NewRun(r)]
  /\ now = 0
  /\ cancelled = [r \in Runs |-> FALSE]
  /\ ChainIdle

\* the answers of the network and of the capability in the concurrent runs
ConcNetAnswers ==
  {a \in NetAnswers :
     \/ a.status = "rejected"
     \/ a.status = "success" /\ a.data = "Write succeeded"
     \/ a.status = "failure" /\ a.gas = 1 /\ a.error = "table already exists"}

ConcSignAnswers(t) ==
  {s \in SignAnswers(t) :
     \/ s.kind = "rejected"
     \/ s.cmd = t.cmd /\ s.sigs = [i \in 1..Len(t.sigs) |-> Sig]}

\* a gasLimit kept in a variable of the module, which the other run overwrites
gasLimitShared(rs, r) ==
  LET other == CHOOSE q \in DOMAIN rs : q # r IN
  IF rs[other].gasLimit # 0 THEN rs[other].gasLimit ELSE rs[r].gasLimit

\* const { gasLimit } = await estimateGas(...): a local of the run
gasLimitOf(rs, r) == rs[r].gasLimit

step(r, next) ==
  /\ runs' = [runs EXCEPT ![r] = next]
  /\ UNCHANGED <<now, cancelled, pipeVars, chainVars>>

Idle(r) == runs[r].awaiting = "none"

\* estimateGas up to client.local(tx, ...)
LocalCall(r) ==
  /\ runs[r].pc = "EstimateGas" /\ Idle(r)
  /\ step(r, [runs[r] EXCEPT
       !.awaiting = "local",
       !.calls = Append(@, [op |-> "local", tx |-> estimateTx(runs[r].command)]),
       !.stagesRun = Append(@, "EstimateGas")])

\* client.local answers: panicIfFails, { gasLimit: response.gas }
LocalAnswer(r) ==
  /\ runs[r].awaiting = "local"
  /\ \E a \in ConcNetAnswers :
       step(r, [runs[r] EXCEPT
         !.awaiting = "none",
         !.localResp = a,
         !.outcome = IF a.status = "rejected"
                       THEN raise("EstimateGas", "transport failure")
                       ELSE IF ~panicIfFails(a)
                         THEN panicIfFailsOutcome("EstimateGas", a) ELSE @,
         !.gasLimit = IF a.status = "success" THEN estimateGas(a).gasLimit ELSE @,
         !.pc = IF a.status = "success" THEN stageAfter("EstimateGas") ELSE "done"])

\* composePactCommand(setMeta({ gasLimit }))
RefineMetaOf(r) ==
  /\ runs[r].pc = "RefineMeta" /\ Idle(r)
  /\ step(r, [runs[r] EXCEPT
       !.refined = setMeta([gasLimit |-> gasLimitOf(runs, r)], runs[r].command),
       !.pc = asyncPipe(TRUE, "RefineMeta"),
       !.stagesRun = Append(@, "RefineMeta")])

\* createTransaction
FinalizeOf(r) ==
  /\ runs[r].pc = "Finalize" /\ Idle(r)
  /\ step(r, [runs[r] EXCEPT
       !.tx = createTransaction(runs[r].refined),
       !.pc = asyncPipe(TRUE, "Finalize"),
       !.stagesRun = Append(@, "Finalize")])

\* safeSign up to await sign(tx)
SignCall(r) ==
  /\ runs[r].pc = "Sign" /\ Idle(r)
  /\ step(r, IF safeSignSkips(runs[r].tx)
       THEN [runs[r] EXCEPT !.pc = asyncPipe(TRUE, "Sign"),
                            !.stagesRun = Append(@, "Sign")]
       ELSE [runs[r] EXCEPT
               !.awaiting = "sign",
               !.calls = Append(@, [op |-> "sign", tx |-> runs[r].tx]),
               !.stagesRun = Append(@, "Sign")])

\* the capability answers: the rest of safeSign
SignAnswer(r) ==
  /\ runs[r].awaiting = "sign"
  /\ \E s \in ConcSignAnswers(runs[r].tx) :
       LET res == IF s.kind = "rejected"
                    THEN [ok |-> FALSE, err |-> "capability rejected", tx |-> runs[r].tx]
                    ELSE safeSign(runs[r].tx, s) IN
       step(r, [runs[r] EXCEPT
         !.awaiting = "none",
         !.signResult = s,
         !.tx = res.tx,
         !.outcome = IF res.ok THEN @ ELSE raise("Sign", res.err),
         !.pc = asyncPipe(res.ok, "Sign")])

\* client.submitOne(tx)
SubmitCall(r) ==
  /\ runs[r].pc = "Submit" /\ Idle(r)
  /\ step(r, [runs[r] EXCEPT
       !.awaiting = "submitOne",
       !.calls = Append(@, [op |-> "submitOne", tx |-> runs[r].tx]),
       !.stagesRun = Append(@, "Submit")])

\* submitOne answers; logTransaction
SubmitAnswer(r) ==
  /\ runs[r].awaiting = "submitOne"
  /\ \E accepted \in BOOLEAN :
       step(r, [runs[r] EXCEPT
         !.awaiting = "none",
         !.descr = IF accepted THEN [requestKey |-> runs[r].tx.hash] ELSE @,
         !.outcome = IF accepted THEN @ ELSE raise("Submit", "transport failure"),
         !.pc = asyncPipe(accepted, "Submit")])

\* client.listen(descriptor)
ListenCall(r) ==
  /\ runs[r].pc = "Poll" /\ Idle(r)
  /\ step(r, [runs[r] EXCEPT
       !.awaiting = "listen",
       !.calls = Append(@, [op |-> "listen", descr |-> runs[r].descr]),
       !.stagesRun = Append(@, "Poll")])

\* client.listen answers
ListenAnswer(r) ==
  /\ runs[r].awaiting = "listen"
  /\ \E a \in ConcNetAnswers :
       step(r, [runs[r] EXCEPT
         !.awaiting = "none",
         !.response = a,
         !.outcome = IF a.status = "rejected"
                       THEN raise("Poll", "transport failure") ELSE @,
         !.pc = asyncPipe(a.status # "rejected", "Poll")])

\* extractResult
ExtractOf(r) ==
  /\ runs[r].pc = "Extract" /\ Idle(r)
  /\ step(r, [runs[r] EXCEPT
       !.outcome = extractResult("Extract", runs[r].response),
       !.pc = "done",
       !.stagesRun = Append(@, "Extract")])

\* time passes for the caller
Tick ==
  /\ now < MaxTime
  /\ now' = now + 1
  /\ UNCHANGED <<runs, cancelled, pipeVars, chainVars>>

\* the caller signals cancellation of run r; sendTransaction has no
\* parameter through which the signal could reach the run
Cancel(r) ==
  /\ ~cancelled[r] /\ runs[r].pc # "done"
  /\ cancelled' = [cancelled EXCEPT ![r] = TRUE]
  /\ UNCHANGED <<runs, now, pipeVars, chainVars>>

ConcNext ==
  \/ \E r \in Runs :
       \/ LocalCall(r)
       \/ LocalAnswer(r)
       \/ RefineMetaOf(r)
       \/ FinalizeOf(r)
       \/ SignCall(r)
       \/ SignAnswer(r)
       \/ SubmitCall(r)
       \/ SubmitAnswer(r)
       \/ ListenCall(r)
       \/ ListenAnswer(r)
       \/ ExtractOf(r)
       \/ Cancel(r)
  \/ Tick

ConcSpec == ConcInit /\ [][ConcNext]_vars

\* the transaction sendTransaction hands to submitOne, and the way the run
\* ends, as functions of its command and of the answers it alone received
AloneSigned(cmd, la, sa) ==
  LET t == createTransaction(setMeta([gasLimit |-> estimateGas(la).gasLimit], cmd)) IN
  IF safeSignSkips(t) THEN [ok |-> TRUE, err |-> "", tx |-> t]
  ELSE IF sa.kind = "rejected"
    THEN [ok |-> FALSE, err |-> "capability rejected", tx |-> t]
    ELSE safeSign(t, sa)

Alone(cmd, la, sa, accepted, pa) ==
  IF la.status = "rejected" THEN raise("EstimateGas", "transport failure")
  ELSE IF ~panicIfFails(la) THEN panicIfFailsOutcome("EstimateGas", la)
  ELSE IF ~AloneSigned(cmd, la, sa).ok
    THEN raise("Sign", AloneSigned(cmd, la, sa).err)
  ELSE IF ~accepted THEN raise("Submit", "transport failure")
  ELSE IF pa.status = "rejected" THEN raise("Poll", "transport failure")
  ELSE extractResult("Extract", pa)

\* the single run ends as Alone says
AloneAgreesWithSingleRun ==
  (Send /\ pc = "done") =>
    outcome = Alone(command, localResp, signResult, descr # NoDescr, response)

\* C13: once the caller's deadline has elapsed no run is still waiting for
\* client.listen: the listener has stopped and no poll is outstanding.
C13_NoPollAfterDeadline ==
  now > Deadline => \A r \in Runs : runs[r].awaiting # "listen"

InNetworkCall(r) == runs[r].awaiting \in {"local", "submitOne", "listen"}

\* C14: a run that is cancelled while suspended in a network call does
\* nothing more than end with CancelledError: no later stage, no call.
C14_CancelStopsRun ==
  [][\A r \in Runs :
       (cancelled[r] /\ InNetworkCall(r) /\ runs'[r] # runs[r]) =>
         /\ runs'[r].pc = "done"
         /\ runs'[r].outcome = raise(runs[r].stagesRun[Len(runs[r].stagesRun)],
                                     "CancelledError")
         /\ runs'[r].calls = runs[r].calls
         /\ runs'[r].stagesRun = runs[r].stagesRun]_vars

SignCalls == SelectSeq(calls, LAMBDA c : c.op = "sign")

\* the run handed a transaction to client.submitOne
Submitted == flow \in PipeFlows /\ Called("submitOne")

\* sendTransaction invokes its capability at most once, on the transaction
\* createTransaction returned
SendSignsOnce ==
  (Send /\ Called("submitOne")) =>
    /\ Len(SignCalls) <= 1
    /\ \A i \in DOMAIN SignCalls : SignCalls[i].tx = finalTx

\* C25: in every pipeline run that submits a transaction the signing
\* capability is invoked at most once, and its input is the unsigned
\* transaction createTransaction produced for that run
C25_CapabilityInvokedOnce ==
  Submitted =>
    /\ Len(SignCalls) <= 1
    /\ \A i \in DOMAIN SignCalls : SignCalls[i].tx = finalTx

\* the metadata of the i-th call's transaction
MetaOf(i) == calls[i].tx.cmd[2].meta

\* the pipe submits the gas limit its dry run reported
RefinedGasLimitSubmitted ==
  Submitted =>
    \A i \in SubmitCalls :
      /\ localResp.status = "success"
      /\ MetaOf(i).gasLimit = estimateGas(localResp).gasLimit

\* C26: after a successful dry run both fields of the pair estimateGas
\* returns are merged into the command before it is finalized and signed:
\* the submitted transaction's gasPrice is the constant the estimator used
\* and its gasLimit is the gas the dry run reported
C26_RefinedPairSubmitted ==
  Submitted =>
    \A i \in SubmitCalls :
      /\ localResp.status = "success"
      /\ MetaOf(i).gasLimit = estimateGas(localResp).gasLimit
      /\ MetaOf(i).gasPrice = estimateGas(localResp).gasPrice

\* ============================================================================
\* The oracle contract (pact/dia-oracle.pact) on a chain, and the deploy
\* handler run against that chain.  A transaction is atomic: a failure
\* anywhere in it rolls every write back.
\* ============================================================================

MaxBatch == 2

\* the result of evaluating Pact code against a ledger
success(l, data, events) ==
  [ok |-> TRUE, error |-> "", data |-> data, events |-> events, ledger |-> l]

\* a failed evaluation leaves the ledger l0 the transaction started from
failure(l0, msg) ==
  [ok |-> FALSE, error |-> msg, data |-> <<>>, events |-> <<>>, ledger |-> l0]

\* (enforce-keyset NAME): the keyset is defined and the signer satisfies it
\* (keys-all over the one key the handlers register)
enforceKeyset(l, name, signer) ==
  /\ l.keysets[name] # "none"
  /\ l.keysets[name] = signer

\* (defcap GOVERNANCE () (enforce-keyset ADMIN_KEYSET))
GOVERNANCE(l, signer) == enforceKeyset(l, ADMIN_KEYSET, signer)

\* (defcap STORAGE () true)
STORAGE == TRUE

\* (defcap ADMIN ...): composes GOVERNANCE and STORAGE
ADMIN(l, signer) == GOVERNANCE(l, signer) /\ STORAGE

\* update-value with the timestamp requirement dropped
anyTimestamp(timestamp) == timestamp = timestamp

\* update-value lines 77-79: (>= (diff-time timestamp UNIX_EPOCH) 0.0)
positiveTimestamp(timestamp) == timestamp - UNIX_EPOCH >= 0

\* a write that keeps the stored row when it carries the later timestamp
writeKeepingNewest(l, key, row) ==
  IF l.rows[key].set /\ l.rows[key].timestamp > row.timestamp
    THEN l
    ELSE [l EXCEPT !.rows[key] = row]

\* (write storage key {...}): inserts the row or replaces the one stored
write(l, key, row) == [l EXCEPT !.rows[key] = row]

\* the UPDATE events of a committed transaction, folded in their order into
\* the per-key history; older: the event carried an earlier timestamp than
\* the one recorded before it
RECURSIVE recordEvents(_, _)
recordEvents(w, events) ==
  IF events = <<>> THEN w
  ELSE LET e == Head(events) IN
       recordEvents(
         [w EXCEPT ![e[1]] =
            [set |-> TRUE, timestamp |-> e[2], value |-> e[3],
             older |-> w[e[1]].set /\ w[e[1]].timestamp > e[2]]],
         Tail(events))

\* update-value without the capability requirement
updateValueUnguarded(l0, st, granted, key, timestamp, value) ==
  IF ~st.ok THEN st
  ELSE IF ~positiveTimestamp(timestamp)
    THEN failure(l0, "Timestamp should be positive")
  ELSE IF ~st.ledger.table
    THEN failure(l0, "table not found")
  ELSE success(write(st.ledger, key, Row(timestamp, value)),
               st.data, Append(st.events, <<key, timestamp, value>>))

\* (defun update-value ...), run inside a transaction in state st;
\* granted: the STORAGE capability is in scope
updateValue(l0, st, granted, key, timestamp, value) ==
  IF ~st.ok THEN st
  ELSE IF ~granted
    THEN failure(l0, "require-capability: not granted")
  ELSE IF ~positiveTimestamp(timestamp)
    THEN failure(l0, "Timestamp should be positive")
  ELSE IF ~st.ledger.table
    THEN failure(l0, "table not found")
  ELSE success(write(st.ledger, key, Row(timestamp, value)),
               st.data, Append(st.events, <<key, timestamp, value>>))

\* Pact's (enumerate FROM TO): both ends included, counting down when
\* FROM is greater than TO
enumerate(from, to) ==
  IF from <= to
    THEN [i \in 1..(to - from + 1) |-> from + (i - 1)]
    ELSE [i \in 1..(from - to + 1) |-> from - (i - 1)]

\* Pact's (at IDX LIST) is defined on 0 .. length - 1
validIndex(i, list) == 0 <= i /\ i < Len(list)
at(i, list) == list[i + 1]

\* (defun set-value ...): (with-capability (ADMIN) (update-value ...))
setValue(l, signer, key, timestamp, value) ==
  IF ~l.module THEN failure(l, "Cannot resolve free.dia-oracle.set-value")
  ELSE IF ~ADMIN(l, signer) THEN failure(l, "Keyset failure (keys-all)")
  ELSE updateValue(l, success(l, <<>>, <<>>), STORAGE, key, timestamp, value)

\* the map of set-multiple-values with a failing element passed over
RECURSIVE mapUpdateValueSkipping(_, _, _, _, _, _)
mapUpdateValueSkipping(l0, st, idx, keys, timestamps, values) ==
  IF idx = <<>> THEN st
  ELSE LET i == Head(idx)
           valid == validIndex(i, keys) /\ validIndex(i, timestamps)
                      /\ validIndex(i, values)
           next == IF valid
                     THEN updateValue(l0, st, STORAGE, at(i, keys),
                                      at(i, timestamps), at(i, values))
                     ELSE st
       IN mapUpdateValueSkipping(l0, IF next.ok THEN next ELSE st,
                                 Tail(idx), keys, timestamps, values)

\* the (map (lambda (i) (update-value (at i keys) ...)) idx) of
\* set-multiple-values, element by element
RECURSIVE mapUpdateValue(_, _, _, _, _, _)
mapUpdateValue(l0, st, idx, keys, timestamps, values) ==
  IF idx = <<>> \/ ~st.ok THEN st
  ELSE LET i == Head(idx) IN
    IF ~(validIndex(i, keys) /\ validIndex(i, timestamps) /\ validIndex(i, values))
      THEN failure(l0, "at: bad index")
      ELSE mapUpdateValue(l0,
             updateValue(l0, st, STORAGE,
                         at(i, keys), at(i, timestamps), at(i, values)),
             Tail(idx), keys, timestamps, values)

\* (defun set-multiple-values ...)
setMultipleValues(l, signer, keys, timestamps, values) ==
  IF ~l.module
    THEN failure(l, "Cannot resolve free.dia-oracle.set-multiple-values")
  ELSE IF ~(Len(keys) = Len(timestamps) /\ Len(keys) = Len(values))
    THEN failure(l, "Input lengths should be equal")
  ELSE IF ~ADMIN(l, signer) THEN failure(l, "Keyset failure (keys-all)")
  ELSE mapUpdateValue(l, success(l, <<>>, <<>>),
                      enumerate(0, Len(keys) - 1), keys, timestamps, values)

\* (free.dia-oracle.update-value ...) called from a transaction: no
\* capability of the module is in scope outside the module
updateValueCall(l, signer, key, timestamp, value) ==
  IF ~l.module THEN failure(l, "Cannot resolve free.dia-oracle.update-value")
  ELSE updateValue(l, success(l, <<>>, <<>>), FALSE, key, timestamp, value)

\* (defun get-value ...): with-default-read
getValue(l, key) ==
  IF ~l.module THEN failure(l, "Cannot resolve free.dia-oracle.get-value")
  ELSE IF ~l.table THEN failure(l, "table not found")
  ELSE success(l,
         <<IF l.rows[key].set THEN l.rows[key] ELSE Row(UNIX_EPOCH, 0)>>, <<>>)

\* a deployment whose last form creates the table anew whatever the flag
deployModuleRecreating(l, signer, upgrade) ==
  IF l.keysets[ADMIN_KEYSET] # "none" /\ ~enforceKeyset(l, ADMIN_KEYSET, signer)
    THEN failure(l, "Keyset failure (keys-all)")
  ELSE success([l EXCEPT !.keysets[ADMIN_KEYSET] = signer, !.module = TRUE,
                         !.table = TRUE, !.rows = [k \in OracleKeys |-> NoRow]],
               <<"TableCreated">>, <<>>)

\* the whole file as one deployment transaction signed by `signer`, whose
\* key the handler also sends as the admin-keyset of the message
deployModule(l, signer, upgrade) ==
  \* line 4: redefining a keyset needs the keyset it replaces
  IF l.keysets[ADMIN_KEYSET] # "none" /\ ~enforceKeyset(l, ADMIN_KEYSET, signer)
    THEN failure(l, "Keyset failure (keys-all)")
  ELSE LET l1 == [l EXCEPT !.keysets[ADMIN_KEYSET] = signer] IN
  \* line 6: replacing a module needs its governance
  IF l1.module /\ ~GOVERNANCE(l1, signer)
    THEN failure(l, "Keyset failure (keys-all)")
  ELSE LET l2 == [l1 EXCEPT !.module = TRUE] IN
  \* lines 86-91
  IF upgrade THEN success(l2, <<"upgrade">>, <<>>)
  ELSE IF l2.table THEN failure(l, "table already exists")
  ELSE success([l2 EXCEPT !.table = TRUE], <<"TableCreated">>, <<>>)

\* ------------------------------------------------- transactions on the chain
Batch(m) ==
  [keys : [1..m -> OracleKeys], timestamps : [1..m -> Times],
   values : [1..m -> Values]]

\* the arguments of set-multiple-values: lists of equal lengths, and the
\* same lists with the last timestamp or the last value missing
Batches ==
  LET equal == UNION {Batch(m) : m \in 0..MaxBatch}
      front(s) == SubSeq(s, 1, Len(s) - 1)
  IN equal
     \cup {[b EXCEPT !.timestamps = front(@)] : b \in equal \ Batch(0)}
     \cup {[b EXCEPT !.values = front(@)] : b \in equal \ Batch(0)}

OracleCalls ==
  [fn : {"set-value", "update-value"}, signer : PublicKeys,
   key : OracleKeys, timestamp : Times, value : Values]
  \cup {[fn |-> "set-multiple-values", signer |-> s, keys |-> b.keys,
         timestamps |-> b.timestamps, values |-> b.values] :
          s \in PublicKeys, b \in Batches}
  \cup [fn : {"get-value"}, signer : PublicKeys, key : OracleKeys]

\* what the chain computes for a call
evaluate(l, c) ==
  CASE c.fn = "set-value" ->
         setValue(l, c.signer, c.key, c.timestamp, c.value)
    [] c.fn = "set-multiple-values" ->
         setMultipleValues(l, c.signer, c.keys, c.timestamps, c.values)
    [] c.fn = "update-value" ->
         updateValueCall(l, c.signer, c.key, c.timestamp, c.value)
    [] c.fn = "get-value" -> getValue(l, c.key)
    [] c.fn = "deploy" -> deployModule(l, c.signer, c.upgrade)

\* the ICommandResult the chain answers with
commandResult(res) ==
  IF res.ok THEN [status |-> "success", gas |-> 1, data |-> res.data]
            ELSE [status |-> "failure", gas |-> 1, error |-> res.error]

OracleInit ==
  /\ PipeIdle
  /\ ConcIdle
  /\ ChainIdle

\* a transaction calling the module arrives at the chain
Transact ==
  /\ txn.phase = "idle"
  /\ \E c \in OracleCalls :
       txn' = [phase |-> "pending", call |-> c, before |-> ledger,
               calls |-> <<>>, outcome |-> Pending]
  /\ UNCHANGED <<ledger, written, pipeVars, concVars>>

\* the chain runs it: the writes of a successful run are committed, a
\* failed run commits nothing
Execute ==
  /\ txn.phase = "pending" /\ txn.call.fn # "deploy"
  /\ LET res == evaluate(ledger, txn.call) IN
       /\ ledger' = res.ledger
       /\ written' = recordEvents(written, res.events)
       /\ txn' = [txn EXCEPT !.phase = "done"] @@ [result |-> res]
  /\ UNCHANGED <<pipeVars, concVars>>

\* deploy(): the handler builds the deployment command for its key pair
Deploy ==
  /\ txn.phase = "idle"
  /\ \E s \in PublicKeys, u \in BOOLEAN :
       txn' = [phase |-> "pending",
               call |-> [fn |-> "deploy", signer |-> s, upgrade |-> u],
               before |-> ledger, calls |-> <<>>, outcome |-> Pending]
  /\ UNCHANGED <<ledger, written, pipeVars, concVars>>

\* sendTransaction line 90 for that command: estimateGas dry-runs it on the
\* chain and panics unless it succeeds
DeployEstimateGas ==
  /\ txn.phase = "pending" /\ txn.call.fn = "deploy"
  /\ LET res == evaluate(ledger, txn.call)
         r == commandResult(res)
     IN IF ~panicIfFails(r)
          THEN txn' = [txn EXCEPT !.phase = "done",
                                  !.calls = Append(@, "local"),
                                  !.outcome = panicIfFailsOutcome("EstimateGas", r)]
                      @@ [result |-> [res EXCEPT !.ledger = ledger]]
          ELSE txn' = [txn EXCEPT !.phase = "estimated",
                                  !.calls = Append(@, "local")]
  /\ UNCHANGED <<ledger, written, pipeVars, concVars>>

\* sendTransaction lines 92-100 for that command: signed by the key pair,
\* submitted, listened for, and the result extracted
DeploySend ==
  /\ txn.phase = "estimated"
  /\ LET res == evaluate(ledger, txn.call) IN
       /\ ledger' = res.ledger
       /\ written' = recordEvents(written, res.events)
       /\ txn' = [txn EXCEPT !.phase = "done",
                             !.calls = @ \o <<"submitOne", "listen">>,
                             !.outcome = extractResult("Extract", commandResult(res))]
                 @@ [result |-> res]
  /\ UNCHANGED <<pipeVars, concVars>>

\* the transaction is over
Return ==
  /\ txn.phase = "done"
  /\ txn' = NoTxn
  /\ UNCHANGED <<ledger, written, pipeVars, concVars>>

OracleNext ==
  \/ Transact
  \/ Execute
  \/ Deploy
  \/ DeployEstimateGas
  \/ DeploySend
  \/ Return

OracleSpec == OracleInit /\ [][OracleNext]_vars

\* the transaction in hand is over; its result can be looked at
Done == txn.phase = "done"

\* the signer of the transaction in hand held the admin keyset when it began
Authorized == enforceKeyset(txn.before, ADMIN_KEYSET, txn.call.signer)

\* the deploy handler ran with the upgrade flag unset against a chain that
\* already had the admin keyset and the storage table
DeployOntoExisting ==
  /\ txn.phase \in {"estimated", "done"}
  /\ txn.call.fn = "deploy" /\ ~txn.call.upgrade
  /\ txn.before.keysets[ADMIN_KEYSET] # "none"
  /\ txn.before.table

\* such a run stops at the dry run: nothing is submitted and the chain is
\* as it was, whatever way the handler ends
DeployOntoExistingStops ==
  DeployOntoExisting =>
    /\ Done
    /\ txn.calls = <<"local">>
    /\ ~txn.result.ok
    /\ Authorized => txn.result.error = "table already exists"
    /\ txn.outcome.kind \in {"raised", "exited"}
    /\ txn.outcome.stage = "EstimateGas"
    /\ ledger = txn.before

\* C19: deploying with the upgrade flag unset onto a chain where the keyset
\* and the storage table already exist fails during gas estimation with a
\* raised "table already exists" error; submitOne is never called and the
\* ledger is unchanged
C19_RedeployRaisesInEstimate ==
  DeployOntoExisting =>
    /\ Done
    /\ txn.outcome.kind = "raised"
    /\ txn.outcome.stage = "EstimateGas"
    /\ Authorized => txn.result.error = "table already exists"
    /\ \A i \in 1..Len(txn.calls) : txn.calls[i] # "submitOne"
    /\ ledger = txn.before

SetCalls == {"set-value", "set-multiple-values"}

\* C20: the rows of the storage table change only by a successful set-value
\* or set-multiple-values transaction whose signer satisfies the admin
\* keyset; those calls without that signer, and update-value called from a
\* transaction, fail and leave the rows as they were
C20_OnlyAdminSetChangesStorage ==
  [][/\ ledger'.rows # ledger.rows =>
          /\ txn.phase = "pending" /\ txn'.phase = "done"
          /\ txn.call.fn \in SetCalls
          /\ enforceKeyset(ledger, ADMIN_KEYSET, txn.call.signer)
          /\ txn'.result.ok
     /\ ( /\ txn.phase = "pending" /\ txn'.phase = "done"
          /\ \/ txn.call.fn \in SetCalls
                  /\ ~enforceKeyset(ledger, ADMIN_KEYSET, txn.call.signer)
             \/ txn.call.fn = "update-value" ) =>
          /\ ~txn'.result.ok
          /\ ledger'.rows = ledger.rows
          /\ ledger' = ledger
    ]_vars

\* the admin has written a row, and a later update-value call of the admin
\* itself was refused
C20_Witness ==
  /\ Done
  /\ txn.call.fn = "update-value" /\ Authorized
  /\ txn.call.timestamp >= UNIX_EPOCH
  /\ ~txn.result.ok
  /\ \E k \in OracleKeys : ledger.rows[k].set
  /\ ledger.rows[txn.call.key] # Row(txn.call.timestamp, txn.call.value)

\* the transaction in hand is a set-multiple-values call that is over
BatchDone == Done /\ txn.call.fn = "set-multiple-values"

EqualLengths(c) ==
  Len(c.keys) = Len(c.timestamps) /\ Len(c.keys) = Len(c.values)

\* some element of the batch carries a timestamp before the epoch
SomeElementFails(c) ==
  \E i \in 1..Len(c.timestamps) : c.timestamps[i] < UNIX_EPOCH

\* C21: set-multiple-values is all-or-nothing: with lists of unequal length
\* or an element whose update fails the call fails, and a failed call stores
\* no entry of the batch and emits no event
C21_BatchAllOrNothing ==
  BatchDone =>
    /\ (~EqualLengths(txn.call) \/ SomeElementFails(txn.call)) => ~txn.result.ok
    /\ ~txn.result.ok => /\ ledger = txn.before
                         /\ txn.result.events = <<>>

\* an authorized batch whose first element is valid and new to the table and
\* whose second element is before the epoch was refused
C21_Witness ==
  /\ BatchDone /\ Authorized /\ txn.before.table
  /\ EqualLengths(txn.call) /\ Len(txn.call.keys) = 2
  /\ txn.call.timestamps[1] >= UNIX_EPOCH
  /\ txn.call.timestamps[2] < UNIX_EPOCH
  /\ txn.before.rows[txn.call.keys[1]]
       # Row(txn.call.timestamps[1], txn.call.values[1])
  /\ ~txn.result.ok

\* what the history says a read of key k returns: the last update
\* committed for k, or the default for a key never written
LastUpdate(k) ==
  IF written[k].set THEN Row(written[k].timestamp, written[k].value)
                    ELSE Row(UNIX_EPOCH, 0)

\* the oracle is deployed with its table
Deployed(l) == l.module /\ l.table

DefaultRead ==
  /\ Done /\ txn.call.fn = "get-value" /\ Deployed(txn.before)
  /\ ~written[txn.call.key].set
  /\ txn.result.data = <<Row(UNIX_EPOCH, 0)>>

\* n successive set-value transactions of one signer on the entries
\* i, i + 1, ... of the lists of call c, each committing before the next
\* starts; the events are those of the transactions in their order
RECURSIVE setValuesInTurn(_, _, _)
setValuesInTurn(st, c, i) ==
  IF i > Len(c.keys) THEN st
  ELSE LET r == setValue(st.ledger, c.signer,
                         c.keys[i], c.timestamps[i], c.values[i])
       IN setValuesInTurn(
            [ok |-> st.ok /\ r.ok, error |-> r.error, data |-> <<>>,
             events |-> st.events \o r.events, ledger |-> r.ledger],
            c, i + 1)

\* an authorized, well-formed batch on a deployed oracle is over
ValidBatchDone ==
  /\ BatchDone /\ Authorized /\ Deployed(txn.before)
  /\ EqualLengths(txn.call) /\ ~SomeElementFails(txn.call)

\* the batch as the set-value transactions it stands for
InTurn == setValuesInTurn(success(txn.before, <<>>, <<>>), txn.call, 1)

\* a batch of at least one entry does what its set-value calls do in turn
NonEmptyBatchAsSetValues ==
  (ValidBatchDone /\ Len(txn.call.keys) >= 1) =>
    /\ txn.result.ok
    /\ ledger = InTurn.ledger
    /\ txn.result.events = InTurn.events
    /\ Len(txn.result.events) = Len(txn.call.keys)

\* C23: for equal-length lists of any length n >= 0 with valid timestamps
\* an admin-authorized set-multiple-values call succeeds, leaves the table
\* as n set-value calls on the indices in ascending order would (unchanged
\* for n = 0) and emits exactly n UPDATE events in that order
C23_BatchAsSetValues ==
  ValidBatchDone =>
    /\ txn.result.ok
    /\ ledger = InTurn.ledger
    /\ txn.result.events = InTurn.events
    /\ Len(txn.result.events) = Len(txn.call.keys)

\* a batch naming one key twice with different entries went through
RepeatedKeyBatch ==
  /\ ValidBatchDone /\ Len(txn.call.keys) = 2
  /\ txn.call.keys[1] = txn.call.keys[2]
  /\ txn.call.values[1] # txn.call.values[2]
  /\ ledger.rows[txn.call.keys[2]]
       = Row(txn.call.timestamps[2], txn.call.values[2])

\* the transaction in hand is over and updated one key
SingleUpdateDone == Done /\ txn.call.fn \in {"set-value", "update-value"}

\* C24: every row of the storage table has a timestamp at or after the
\* Unix epoch; an update with a timestamp before the epoch is rejected
\* with "Timestamp should be positive" and leaves the row of its key as it
\* was
C24_TimestampsNotBeforeEpoch ==
  /\ \A k \in OracleKeys :
       ledger.rows[k].set => ledger.rows[k].timestamp >= UNIX_EPOCH
  /\ (SingleUpdateDone /\ txn.call.timestamp < UNIX_EPOCH) =>
       /\ ~txn.result.ok
       /\ ledger.rows[txn.call.key] = txn.before.rows[txn.call.key]
       /\ (txn.call.fn = "set-value" /\ Authorized) =>
            txn.result.error = "Timestamp should be positive"
  /\ (BatchDone /\ SomeElementFails(txn.call)) =>
       /\ ~txn.result.ok
       /\ ledger.rows = txn.before.rows
       /\ (Authorized /\ EqualLengths(txn.call) /\ Deployed(txn.before)) =>
            txn.result.error = "Timestamp should be positive"

\* the admin's set-value with a timestamp before the epoch on a key that
\* holds a row was refused
C24_Witness ==
  /\ SingleUpdateDone /\ txn.call.fn = "set-value" /\ Authorized
  /\ txn.call.timestamp < UNIX_EPOCH
  /\ txn.before.rows[txn.call.key].set
  /\ txn.result.error = "Timestamp should be positive"

\* the deploy handler's run is over
DeployDone == Done /\ txn.call.fn = "deploy"

\* what every key reads as on ledger l
Readable(l) == [k \in OracleKeys |-> getValue(l, k)]

\* C27: a deployment with the upgrade flag set on a chain where the module
\* is deployed neither creates nor clears the storage table, and every key
\* reads after it as it did before; the table is created only by a
\* deployment with the flag unset, and once: it is never created again,
\* dropped or emptied by a deployment
C27_UpgradeKeepsStorage ==
  /\ []((DeployDone /\ txn.call.upgrade /\ txn.before.module) =>
          /\ ledger.table = txn.before.table
          /\ ledger.rows = txn.before.rows
          /\ \A k \in OracleKeys :
               /\ Readable(ledger)[k].ok = Readable(txn.before)[k].ok
               /\ Readable(ledger)[k].data = Readable(txn.before)[k].data)
  /\ [][/\ ledger'.table # ledger.table =>
             /\ ~ledger.table /\ ledger'.table
             /\ txn.phase = "estimated" /\ txn'.phase = "done"
             /\ txn.call.fn = "deploy" /\ ~txn.call.upgrade
             /\ txn'.result.ok /\ txn'.result.data = <<"TableCreated">>
        /\ ( /\ ledger.table
             /\ txn.phase # "done" /\ txn'.phase = "done"
             /\ txn'.call.fn = "deploy" ) =>
             /\ ledger'.rows = ledger.rows
             /\ ~txn'.call.upgrade => ~txn'.result.ok
       ]_vars

\* the admin upgraded an oracle that holds a row
C27_Witness ==
  /\ DeployDone /\ txn.call.upgrade /\ Authorized
  /\ Deployed(txn.before)
  /\ txn.result.ok /\ txn.outcome.kind = "returned"
  /\ \E k \in OracleKeys : txn.before.rows[k].set /\ ledger.rows[k] = txn.before.rows[k]

\* the table was created by a deployment with the flag unset
TableCreated ==
  /\ DeployDone /\ ~txn.call.upgrade
  /\ ~txn.before.table /\ ledger.table

====
